---- MODULE Spec2Model ----
(***************************************************************************)
(* Model of s2e_env/commands/code_coverage/lcov.py: the address coverage   *)
(* merger, the address coverage extractor, the S2E output folder selector, *)
(* the lcov writer and the LineCoverage.handle command that sequences them.*)
(*                                                                         *)
(* Python dicts are functions with a finite domain; a dict whose iteration *)
(* order is observable (file_line_info and its line maps) is a sequence of *)
(* <<key, value>> pairs with distinct keys.                                *)
(***************************************************************************)
EXTENDS Integers, Sequences, FiniteSets, TLC

VARIABLES
    \* ---- merger harness: the same two maps merged in both orders
    mg_pc,        \* number of merger calls made so far (0..4)
    mg_name,      \* module_name passed to every call
    mg_X,         \* first AddressCount
    mg_Y,         \* second AddressCount
    mg_start,     \* the ModuleCoverage both orders start from
    mg_xy,        \* coverage after merging X then Y
    mg_yx,        \* coverage after merging Y then X
    mg_before,    \* coverage just before the latest call
    mg_incoming,  \* module_coverage as passed to the latest call
    mg_after      \* the module_coverage object as the caller sees it after the call

mg_vars == <<mg_pc, mg_name, mg_X, mg_Y, mg_start, mg_xy, mg_yx,
             mg_before, mg_incoming, mg_after>>

VARIABLES
    \* ---- extractor: _get_addr_coverage called once per output folder
    ex_cov,       \* aggregated_coverage
    ex_n,         \* number of folders extracted so far
    ex_hits       \* per module and address: folders with a block over the address

ex_vars == <<ex_cov, ex_n, ex_hits>>

VARIABLES
    \* ---- folder selector: one call of LineCoverage._get_output_folders
    sel_pc,       \* "call" before the call, "returned" or "raised" after it
    sel_options,  \* the options: aggregate_outputs and s2e_out_dir
    sel_last,     \* basename of os.path.realpath(project_path('s2e-last'))
    sel_disk,     \* basenames that exist in the directory of that path
    sel_ret       \* the list returned

sel_vars == <<sel_pc, sel_options, sel_last, sel_disk, sel_ret>>

VARIABLES
    \* ---- lcov writer: one call of _save_coverage_info
    wr_pc,        \* "call" before the call, "returned" or "raised" after it
    wr_info,      \* file_line_info
    wr_ignore,    \* ignore_missing_files
    wr_exists,    \* the source files for which os.path.exists is true
    wr_writable,  \* whether open(lcov_path, 'w') succeeds
    wr_out        \* the lines written to lcov_path

wr_vars == <<wr_pc, wr_info, wr_ignore, wr_exists, wr_writable, wr_out>>

VARIABLES
    \* ---- LineCoverage.handle: one invocation of the command
    h_pc,         \* position in handle
    h_options,    \* html, aggregate_outputs, s2e_out_dir
    h_last,       \* basename of os.path.realpath(project_path('s2e-last'))
    h_disk,       \* output folders that exist beside it
    h_exists,     \* source files that exist
    h_folders,    \* the list _get_output_folders returned
    h_i,          \* folders extracted so far
    h_coverage,   \* coverage
    h_order,      \* the keys of coverage in insertion order
    h_k,          \* modules the second loop is through with
    h_file_line_info,  \* file_line_info of the module being processed
    h_status,     \* per module: "pending", "success" or "failed"
    h_info,       \* the .info files of lcov_out_dir: <<module, "info">> -> lines
    h_html,       \* the <module>_lcov directories genhtml produced
    h_log,        \* the calls made per module and how each ended
    h_error       \* the exception that ended handle, "" if none

h_vars == <<h_pc, h_options, h_last, h_disk, h_exists, h_folders, h_i, h_coverage,
            h_order, h_k, h_file_line_info, h_status, h_info, h_html, h_log,
            h_error>>

vars == <<mg_vars, ex_vars, sel_vars, wr_vars, h_vars>>

----------------------------------------------------------------------------
(* Bounds *)

MaxAddr == 2
MaxCount == 2
MaxRuns == 3
MaxBlocks == 2
MaxIndex == 10
MaxLastN == 3
MaxLines == 2

----------------------------------------------------------------------------
(* Dict helpers *)

EmptyDict == <<>>

Put(d, k, v) == [x \in DOMAIN d \cup {k} |-> IF x = k THEN v ELSE d[x]]

Get(d, k, default) == IF k \in DOMAIN d THEN d[k] ELSE default

Min(S) == CHOOSE x \in S : \A y \in S : x <= y

----------------------------------------------------------------------------
(* Inputs *)

\* module paths as sequences of path components
ModulePaths == {<<"a", "m">>, <<"b", "n">>}

Addrs == 0..MaxAddr

AddressCounts ==
    UNION {[D -> 1..MaxCount] : D \in SUBSET Addrs}

----------------------------------------------------------------------------
(* _merge_coverage *)

\* The loop of _merge_coverage. `aliased` is the case where line 41 made
\* coverage[module_name] the very object module_coverage, so that the count
\* read from module_coverage.items() is the one held by cov.
RECURSIVE MergeLoop(_, _, _, _)
MergeLoop(cov, module_coverage, todo, aliased) ==
    IF todo = {} THEN cov
    ELSE LET addr == Min(todo)
             cnt  == IF aliased THEN cov[addr] ELSE module_coverage[addr]
             nxt  == IF addr \in DOMAIN cov
                        THEN [cov EXCEPT ![addr] = @ + cnt]
                        ELSE Put(cov, addr, cnt)
         IN MergeLoop(nxt, module_coverage, todo \ {addr}, aliased)

\* The entry of module_name after the call.
MergedEntry(coverage, module_name, module_coverage) ==
    LET aliased == module_name \notin DOMAIN coverage
        cov     == IF aliased THEN module_coverage ELSE coverage[module_name]
    IN MergeLoop(cov, module_coverage, DOMAIN module_coverage, aliased)

merge_coverage(coverage, module_name, module_coverage) ==
    Put(coverage, module_name, MergedEntry(coverage, module_name, module_coverage))

\* What the caller's module_coverage object holds after the call: the entry
\* itself when the module was absent (same object), untouched otherwise.
IncomingAfter(coverage, module_name, module_coverage) ==
    IF module_name \notin DOMAIN coverage
        THEN MergedEntry(coverage, module_name, module_coverage)
        ELSE module_coverage

----------------------------------------------------------------------------
(* Merger harness *)

MgStarts ==
    {EmptyDict} \cup
    {Put(EmptyDict, m, c) : m \in ModulePaths, c \in AddressCounts}

MgInit ==
    /\ mg_pc = 0
    /\ mg_name \in ModulePaths
    /\ mg_X \in AddressCounts
    /\ mg_Y \in AddressCounts
    /\ mg_start \in MgStarts
    /\ mg_xy = mg_start
    /\ mg_yx = mg_start
    /\ mg_before = mg_start
    /\ mg_incoming = EmptyDict
    /\ mg_after = EmptyDict

\* one call of _merge_coverage on the X-then-Y coverage
MgCallXY(arg) ==
    /\ mg_before' = mg_xy
    /\ mg_incoming' = arg
    /\ mg_after' = IncomingAfter(mg_xy, mg_name, arg)
    /\ mg_xy' = merge_coverage(mg_xy, mg_name, arg)
    /\ UNCHANGED mg_yx

\* one call of _merge_coverage on the Y-then-X coverage
MgCallYX(arg) ==
    /\ mg_before' = mg_yx
    /\ mg_incoming' = arg
    /\ mg_after' = IncomingAfter(mg_yx, mg_name, arg)
    /\ mg_yx' = merge_coverage(mg_yx, mg_name, arg)
    /\ UNCHANGED mg_xy

MgMerge ==
    /\ mg_pc < 4
    /\ mg_pc' = mg_pc + 1
    /\ CASE mg_pc = 0 -> MgCallXY(mg_X)
         [] mg_pc = 1 -> MgCallXY(mg_Y)
         [] mg_pc = 2 -> MgCallYX(mg_Y)
         [] OTHER     -> MgCallYX(mg_X)
    /\ UNCHANGED <<mg_name, mg_X, mg_Y, mg_start>>

MgIdle ==
    /\ mg_pc = 0
    /\ mg_name = <<>>
    /\ mg_X = EmptyDict
    /\ mg_Y = EmptyDict
    /\ mg_start = EmptyDict
    /\ mg_xy = EmptyDict
    /\ mg_yx = EmptyDict
    /\ mg_before = EmptyDict
    /\ mg_incoming = EmptyDict
    /\ mg_after = EmptyDict

----------------------------------------------------------------------------
(* _get_addr_coverage *)

\* a RawBlockEntry is <<start_addr, end_addr, size>>
Block(start, size) == <<start, start + size, size>>

Blocks == {Block(0, 1), Block(0, 2), Block(1, 2), Block(2, 0)}

BlockSeqs == UNION {[1..n -> Blocks] : n \in 0..MaxBlocks}

\* what aggregate_tb_files returns for one folder: module path -> blocks
TbCoverageFiles ==
    UNION {[D -> BlockSeqs] : D \in SUBSET ModulePaths}

\* for byte in range(0, size): addr_counts[start_addr + byte] = 1
RECURSIVE ExpandBytes(_, _, _, _)
ExpandBytes(addr_counts, start_addr, byte, size) ==
    IF byte >= size THEN addr_counts
    ELSE ExpandBytes(Put(addr_counts, start_addr + byte, 1),
                     start_addr, byte + 1, size)

\* for start_addr, _, size in coverage: ...
RECURSIVE ExpandBlocks(_, _, _)
ExpandBlocks(addr_counts, coverage, i) ==
    IF i > Len(coverage) THEN addr_counts
    ELSE ExpandBlocks(ExpandBytes(addr_counts, coverage[i][1], 0, coverage[i][3]),
                      coverage, i + 1)

ModuleOrder(S) == CHOOSE m \in S : TRUE

\* for module_path, coverage in tb_coverage_files.items(): ...
RECURSIVE ExtractLoop(_, _, _)
ExtractLoop(tb_coverage_files, todo, aggregated_coverage) ==
    IF todo = {} THEN aggregated_coverage
    ELSE LET module_path == ModuleOrder(todo)
             addr_counts == ExpandBlocks(EmptyDict, tb_coverage_files[module_path], 1)
         IN ExtractLoop(tb_coverage_files, todo \ {module_path},
                        merge_coverage(aggregated_coverage, module_path, addr_counts))

get_addr_coverage(tb_coverage_files, aggregated_coverage) ==
    ExtractLoop(tb_coverage_files, DOMAIN tb_coverage_files, aggregated_coverage)

----------------------------------------------------------------------------
(* Extractor runs *)

\* some RawBlockEntry (start, _, size) of the module has start <= addr < start+size
Touches(tb_coverage_files, module_path, addr) ==
    /\ module_path \in DOMAIN tb_coverage_files
    /\ \E i \in DOMAIN tb_coverage_files[module_path] :
          LET b == tb_coverage_files[module_path][i]
          IN b[1] <= addr /\ addr < b[1] + b[3]

ExAddrs == 0..3

ExInit ==
    /\ ex_cov = EmptyDict
    /\ ex_n = 0
    /\ ex_hits = [m \in ModulePaths |-> [a \in ExAddrs |-> 0]]

ExExtract ==
    /\ ex_n < MaxRuns
    /\ \E tb \in TbCoverageFiles :
          /\ ex_cov' = get_addr_coverage(tb, ex_cov)
          /\ ex_hits' = [m \in ModulePaths |-> [a \in ExAddrs |->
                           ex_hits[m][a] + IF Touches(tb, m, a) THEN 1 ELSE 0]]
    /\ ex_n' = ex_n + 1

ExIdle ==
    /\ ex_cov = EmptyDict
    /\ ex_n = 0
    /\ ex_hits = EmptyDict

----------------------------------------------------------------------------
(* Strings: sequences of one-character strings *)

DigitChars == <<"0", "1", "2", "3", "4", "5", "6", "7", "8", "9">>

IsDigit(c) == \E i \in DOMAIN DigitChars : DigitChars[i] = c

DigitValue(c) == (CHOOSE i \in DOMAIN DigitChars : DigitChars[i] = c) - 1

\* str.split(sep) for a one-character separator
RECURSIVE Split(_, _)
Split(s, sep) ==
    IF \A i \in DOMAIN s : s[i] # sep THEN <<s>>
    ELSE LET i == Min({j \in DOMAIN s : s[j] = sep})
         IN <<SubSeq(s, 1, i - 1)>> \o Split(SubSeq(s, i + 1, Len(s)), sep)

\* whether int(s) returns, for s over digits, letters and no sign or blank
IsInt(s) == Len(s) > 0 /\ \A i \in DOMAIN s : IsDigit(s[i])

\* int(s)
RECURSIVE ParseInt(_)
ParseInt(s) ==
    IF Len(s) = 0 THEN 0
    ELSE 10 * ParseInt(SubSeq(s, 1, Len(s) - 1)) + DigitValue(s[Len(s)])

\* '%d' % n
RECURSIVE FormatNat(_)
FormatNat(n) ==
    IF n < 10 THEN <<DigitChars[n + 1]>>
    ELSE FormatNat(n \div 10) \o <<DigitChars[(n % 10) + 1]>>

FormatInt(n) == IF n < 0 THEN <<"-">> \o FormatNat(-n) ELSE FormatNat(n)

\* 's2e-out-%d' % n
OutName(n) == <<"s", "2", "e", "-", "o", "u", "t", "-">> \o FormatInt(n)

S2eLast == <<"s", "2", "e", "-", "l", "a", "s", "t">>

----------------------------------------------------------------------------
(* LineCoverage._get_output_folders *)

\* Paths of the project directory are modelled by their basename: dirname
\* and os.path.join(dirname, ...) cancel out.

\* mutant: the loop without the os.path.exists test
RECURSIVE LastNLoop_NoExists(_, _, _, _, _)
LastNLoop_NoExists(ret, i, last_n_outputs, index, disk) ==
    IF i >= last_n_outputs THEN ret
    ELSE LastNLoop_NoExists(Append(ret, OutName(ParseInt(index) - i)),
                            i + 1, last_n_outputs, index, disk)

\* for i in range(0, last_n_outputs): ... if os.path.exists(output_dir)
RECURSIVE LastNLoop(_, _, _, _, _)
LastNLoop(ret, i, last_n_outputs, index, disk) ==
    IF i >= last_n_outputs THEN ret
    ELSE LET output_dir == OutName(ParseInt(index) - i)
         IN LastNLoop(IF output_dir \in disk THEN Append(ret, output_dir) ELSE ret,
                      i + 1, last_n_outputs, index, disk)

\* mutant: the index is the last dash-separated component, however many
\* components there are
get_output_folders_LastPart(options, s2e_last, disk) ==
    LET last_n_outputs == options.aggregate_outputs
        parts == Split(s2e_last, "-")
    IN IF last_n_outputs # 0
          THEN IF last_n_outputs > 0 /\ ~IsInt(parts[Len(parts)])
                  THEN [raised |-> TRUE, ret |-> <<>>]
               ELSE [raised |-> FALSE,
                     ret |-> LastNLoop(<<>>, 0, last_n_outputs, parts[Len(parts)],
                                       disk)]
       ELSE IF options.s2e_out_dir = <<>>
          THEN [raised |-> FALSE, ret |-> <<S2eLast>>]
       ELSE [raised |-> FALSE, ret |-> options.s2e_out_dir]

\* [raised |-> the call raised (ValueError of the unpacking or of int()),
\*  ret |-> the list returned]
get_output_folders(options, s2e_last, disk) ==
    LET last_n_outputs == options.aggregate_outputs
        parts == Split(s2e_last, "-")
    IN IF last_n_outputs # 0
          THEN IF Len(parts) # 3
                  THEN [raised |-> TRUE, ret |-> <<>>]
               ELSE IF last_n_outputs > 0 /\ ~IsInt(parts[3])
                  THEN [raised |-> TRUE, ret |-> <<>>]
               ELSE [raised |-> FALSE,
                     ret |-> LastNLoop(<<>>, 0, last_n_outputs, parts[3], disk)]
       ELSE IF options.s2e_out_dir = <<>>
          THEN [raised |-> FALSE, ret |-> <<S2eLast>>]
       ELSE [raised |-> FALSE, ret |-> options.s2e_out_dir]

----------------------------------------------------------------------------
(* Selector calls *)

Indices == {0, 1} \cup 7..MaxIndex

\* names that may exist beside the target of s2e-last
DiskNames == {OutName(n) : n \in Indices \cup {-1}}

\* targets of s2e-last: well formed, with a leading zero, and malformed
LastNames ==
    {OutName(n) : n \in Indices}
    \cup {<<"s", "2", "e", "-", "o", "u", "t", "-", "0", "9">>}
    \cup {S2eLast,
          <<"s", "2", "e", "-", "o", "u", "t">>,
          <<"s", "2", "e", "-", "o", "u", "t", "-", "1", "-", "2">>,
          <<"s", "2", "e", "-", "o", "u", "t", "-", "x">>,
          <<"s", "2", "e", "-", "o", "u", "t", "-">>}

ExplicitDirs ==
    {<<>>, <<OutName(1)>>, <<OutName(7), OutName(0)>>}

Options ==
    [aggregate_outputs : -1..MaxLastN, s2e_out_dir : ExplicitDirs]

SelInit ==
    /\ sel_pc = "call"
    /\ sel_options \in Options
    /\ sel_last \in LastNames
    /\ sel_disk \in SUBSET DiskNames
    /\ sel_ret = <<>>

SelCall ==
    /\ sel_pc = "call"
    /\ LET r == get_output_folders(sel_options, sel_last, sel_disk)
       IN /\ sel_pc' = IF r.raised THEN "raised" ELSE "returned"
          /\ sel_ret' = r.ret
    /\ UNCHANGED <<sel_options, sel_last, sel_disk>>

SelIdle ==
    /\ sel_pc = "idle"
    /\ sel_options = EmptyDict
    /\ sel_last = <<>>
    /\ sel_disk = {}
    /\ sel_ret = <<>>

----------------------------------------------------------------------------
(* _save_coverage_info *)

\* A line of the lcov file: tag, and the fields the tag carries.
Line(tag, path, a, b) == [tag |-> tag, path |-> path, a |-> a, b |-> b]

TN == Line("TN", "", 0, 0)
SF(src_file) == Line("SF", src_file, 0, 0)
DA(line, count) == Line("DA", "", line, count)
LH(n) == Line("LH", "", n, 0)
LF(n) == Line("LF", "", n, 0)
EndOfRecord == Line("end_of_record", "", 0, 0)

\* for line, count in file_line_info[src_file].items(): ...
\* st is [f |-> lines written, num_non_zero_lines, num_instrumented_lines]
RECURSIVE DaLoop(_, _, _)
DaLoop(st, items, i) ==
    IF i > Len(items) THEN st
    ELSE LET line  == items[i][1]
             count == items[i][2]
         IN DaLoop([f |-> Append(st.f, DA(line, count)),
                    num_non_zero_lines |->
                        IF count # 0 THEN st.num_non_zero_lines + 1
                                     ELSE st.num_non_zero_lines,
                    num_instrumented_lines |-> st.num_instrumented_lines + 1],
                   items, i + 1)

\* mutant: every line counted as hit, whatever its count
WriteRecord_AllHit(f, src_file, items) ==
    LET st == DaLoop([f |-> Append(f, SF(src_file)),
                      num_non_zero_lines |-> 0,
                      num_instrumented_lines |-> 0], items, 1)
    IN st.f \o <<LH(st.num_instrumented_lines), LF(st.num_instrumented_lines),
                 EndOfRecord>>

\* one iteration of the loop over file_line_info, for a file that is not skipped
WriteRecord(f, src_file, items) ==
    LET st == DaLoop([f |-> Append(f, SF(src_file)),
                      num_non_zero_lines |-> 0,
                      num_instrumented_lines |-> 0], items, 1)
    IN st.f \o <<LH(st.num_non_zero_lines), LF(st.num_instrumented_lines), EndOfRecord>>

\* for src_file in file_line_info: ...
RECURSIVE FileLoop(_, _, _, _, _)
FileLoop(f, file_line_info, i, ignore_missing_files, exists) ==
    IF i > Len(file_line_info) THEN f
    ELSE LET src_file == file_line_info[i][1]
         IN IF ignore_missing_files /\ src_file \notin exists
               THEN FileLoop(f, file_line_info, i + 1, ignore_missing_files, exists)
               ELSE FileLoop(WriteRecord(f, src_file, file_line_info[i][2]),
                             file_line_info, i + 1, ignore_missing_files, exists)

\* mutant: a TN: line closes the file as well
save_coverage_info_TrailingTN(writable, file_line_info, ignore_missing_files, exists) ==
    IF ~writable THEN [raised |-> TRUE, f |-> <<>>]
    ELSE [raised |-> FALSE,
          f |-> FileLoop(<<TN>>, file_line_info, 1, ignore_missing_files, exists)
                \o <<TN>>]

\* mutant: ignore_missing_files is not honoured
save_coverage_info_NoSkip(writable, file_line_info, ignore_missing_files, exists) ==
    IF ~writable THEN [raised |-> TRUE, f |-> <<>>]
    ELSE [raised |-> FALSE,
          f |-> FileLoop(<<TN>>, file_line_info, 1, FALSE, exists)]

\* [raised |-> open() raised, f |-> the lines of the file]
save_coverage_info(writable, file_line_info, ignore_missing_files, exists) ==
    IF ~writable THEN [raised |-> TRUE, f |-> <<>>]
    ELSE [raised |-> FALSE,
          f |-> FileLoop(<<TN>>, file_line_info, 1, ignore_missing_files, exists)]

----------------------------------------------------------------------------
(* Writer calls *)

SrcFiles == {"/a.c", "/b.c"}

WrLines == 10..(9 + MaxLines)

WrCounts == {0, 2}

\* sequences over S without repetition, of length at most n
DistinctSeqs(S, n) ==
    UNION {{q \in [1..k -> S] : \A i, j \in 1..k : i # j => q[i] # q[j]} : k \in 0..n}

\* line -> count dicts, in iteration order
LineMaps ==
    UNION {{[i \in DOMAIN q |-> <<q[i], c[i]>>] : c \in [DOMAIN q -> WrCounts]} :
           q \in DistinctSeqs(WrLines, MaxLines)}

\* the file_line_info dict with the files q, in this order, and the line
\* maps m
FileLineInfo(q, m) == [i \in DOMAIN q |-> <<q[i], m[i]>>]

WrInit ==
    /\ wr_pc = "call"
    /\ \E q \in DistinctSeqs(SrcFiles, Cardinality(SrcFiles)) :
          \E m \in [DOMAIN q -> LineMaps] : wr_info = FileLineInfo(q, m)
    /\ wr_ignore \in BOOLEAN
    /\ wr_exists \in SUBSET SrcFiles
    /\ wr_writable \in BOOLEAN
    /\ wr_out = <<>>

WrSave ==
    /\ wr_pc = "call"
    /\ LET r == save_coverage_info(wr_writable, wr_info, wr_ignore, wr_exists)
       IN /\ wr_pc' = IF r.raised THEN "raised" ELSE "returned"
          /\ wr_out' = r.f
    /\ UNCHANGED <<wr_info, wr_ignore, wr_exists, wr_writable>>

WrIdle ==
    /\ wr_pc = "idle"
    /\ wr_info = <<>>
    /\ wr_ignore = FALSE
    /\ wr_exists = {}
    /\ wr_writable = FALSE
    /\ wr_out = <<>>

----------------------------------------------------------------------------
(* LineCoverage.handle *)

\* os.path.basename of a module path
Basename(module_path) == module_path[Len(module_path)]

\* os.path.join(lcov_out_dir, module + '.info')
LcovInfoPath(module_path) == <<Basename(module_path), "info">>

\* os.path.join(lcov_out_dir, '%s_lcov' % module)
LcovHtmlDir(module_path) == <<Basename(module_path), "_lcov">>

\* the keys a call of _get_addr_coverage adds to coverage, in the order of
\* its loop
RECURSIVE NewKeys(_, _)
NewKeys(todo, coverage) ==
    IF todo = {} THEN <<>>
    ELSE LET module_path == ModuleOrder(todo)
         IN (IF module_path \in DOMAIN coverage THEN <<>> ELSE <<module_path>>)
            \o NewKeys(todo \ {module_path}, coverage)

\* mutant: an exception of a module's steps ends handle
ExceptPc_Propagate == "aborted"

\* except Exception as e: logger.error(e); continue
ExceptPc == "modules"

\* mutant: genhtml is run whatever the html option
AfterSavePc_AlwaysHtml(do_gen_html) == "written"

\* if do_gen_html: ... after _save_coverage_info returned
AfterSavePc(do_gen_html) == IF do_gen_html THEN "written" ELSE "modules"

Event(ev, module_path, flag) == [ev |-> ev, module |-> module_path, flag |-> flag]

HOptions ==
    [html : BOOLEAN, aggregate_outputs : 0..2,
     s2e_out_dir : {<<>>, <<OutName(1), OutName(0)>>}]

HLastNames ==
    {OutName(1), S2eLast,
     <<"s", "2", "e", "-", "o", "u", "t", "-", "1", "-", "1">>}

HDiskNames == {OutName(0), OutName(1)}

\* what the trace loader finds in a folder
HTraces ==
    {EmptyDict,
     Put(EmptyDict, <<"a", "m">>, <<Block(0, 2)>>),
     Put(Put(EmptyDict, <<"a", "m">>, <<Block(1, 1)>>), <<"b", "m">>, <<Block(0, 1)>>)}

\* what SymbolManager.get_coverage returns
HFileLineInfos ==
    {<<>>,
     << <<"/a.c", << <<10, 2>>, <<11, 0>> >> >>, <<"/b.c", << <<7, 1>> >> >> >>}

HInit ==
    /\ h_pc = "start"
    /\ h_options \in HOptions
    /\ h_last \in HLastNames
    /\ h_disk \in SUBSET HDiskNames
    /\ h_exists \in {{"/a.c"}, {"/a.c", "/b.c"}}
    /\ h_folders = <<>>
    /\ h_i = 0
    /\ h_coverage = EmptyDict
    /\ h_order = <<>>
    /\ h_k = 0
    /\ h_file_line_info = <<>>
    /\ h_status = EmptyDict
    /\ h_info = EmptyDict
    /\ h_html = {}
    /\ h_log = <<>>
    /\ h_error = ""

\* handle touches nothing of the harnesses of the single functions
HFrame == UNCHANGED <<mg_vars, ex_vars, sel_vars, wr_vars>>

\* self._get_output_folders(**options), evaluated once for the first loop
HSelect ==
    /\ HFrame
    /\ h_pc = "start"
    /\ LET r == get_output_folders(h_options, h_last, h_disk)
       IN IF r.raised
             THEN /\ h_pc' = "aborted"
                  /\ h_error' = "ValueError"
                  /\ UNCHANGED h_folders
             ELSE /\ h_pc' = "extract"
                  /\ h_folders' = r.ret
                  /\ UNCHANGED h_error
    /\ UNCHANGED <<h_options, h_last, h_disk, h_exists, h_i, h_coverage, h_order,
                   h_k, h_file_line_info, h_status, h_info, h_html, h_log>>

\* one iteration of the first loop: _get_addr_coverage(directory, coverage)
HExtract ==
    /\ HFrame
    /\ h_pc = "extract"
    /\ h_i < Len(h_folders)
    /\ \E tb \in HTraces :
          /\ h_coverage' = get_addr_coverage(tb, h_coverage)
          /\ h_order' = h_order \o NewKeys(DOMAIN tb, h_coverage)
          /\ h_status' = [m \in DOMAIN h_coverage \cup DOMAIN tb |-> "pending"]
    /\ h_i' = h_i + 1
    /\ UNCHANGED <<h_pc, h_options, h_last, h_disk, h_exists, h_folders, h_k,
                   h_file_line_info, h_info, h_html, h_log, h_error>>

\* the first loop is exhausted: on to the loop over coverage.items()
HExtracted ==
    /\ HFrame
    /\ h_pc = "extract"
    /\ h_i = Len(h_folders)
    /\ h_pc' = "modules"
    /\ UNCHANGED <<h_options, h_last, h_disk, h_exists, h_folders, h_i, h_coverage,
                   h_order, h_k, h_file_line_info, h_status, h_info, h_html, h_log,
                   h_error>>

\* the exception handler of the second loop, for the module being processed
HExcept(ev) ==
    /\ h_pc' = ExceptPc
    /\ h_k' = h_k + 1
    /\ h_status' = [h_status EXCEPT ![h_order[h_k + 1]] = "failed"]
    /\ h_log' = Append(h_log, ev)

\* the body of the second loop has run through for the module
HSuccess(ev) ==
    /\ h_pc' = "modules"
    /\ h_k' = h_k + 1
    /\ h_status' = [h_status EXCEPT ![h_order[h_k + 1]] = "success"]
    /\ h_log' = Append(h_log, ev)

\* syms.get_coverage(module_path, addr_counts, cov) for the next module
HMap ==
    /\ HFrame
    /\ h_pc = "modules"
    /\ h_k < Len(h_order)
    /\ LET module_path == h_order[h_k + 1]
       IN \/ /\ HExcept(Event("map_raised", module_path, FALSE))
             /\ UNCHANGED h_file_line_info
          \/ \E fli \in HFileLineInfos :
                /\ h_file_line_info' = fli
                /\ h_pc' = "mapped"
                /\ h_log' = Append(h_log, Event("map", module_path, FALSE))
                /\ UNCHANGED <<h_k, h_status>>
    /\ UNCHANGED <<h_options, h_last, h_disk, h_exists, h_folders, h_i, h_coverage,
                   h_order, h_info, h_html, h_error>>

\* _save_coverage_info(lcov_info_path, file_line_info, do_gen_html)
HSave ==
    /\ HFrame
    /\ h_pc = "mapped"
    /\ LET module_path == h_order[h_k + 1]
           do_gen_html == h_options.html
       IN \E writable \in BOOLEAN :
            LET r == save_coverage_info(writable, h_file_line_info, do_gen_html,
                                        h_exists)
            IN IF r.raised
                  THEN /\ HExcept(Event("save_raised", module_path, do_gen_html))
                       /\ UNCHANGED h_info
               ELSE IF AfterSavePc(do_gen_html) = "written"
                  THEN /\ h_info' = Put(h_info, LcovInfoPath(module_path), r.f)
                       /\ h_pc' = "written"
                       /\ h_log' = Append(h_log,
                                           Event("save", module_path, do_gen_html))
                       /\ UNCHANGED <<h_k, h_status>>
               ELSE /\ h_info' = Put(h_info, LcovInfoPath(module_path), r.f)
                    /\ HSuccess(Event("save", module_path, do_gen_html))
    /\ UNCHANGED <<h_options, h_last, h_disk, h_exists, h_folders, h_i, h_coverage,
                   h_order, h_file_line_info, h_html, h_error>>

\* _gen_html(lcov_info_path, lcov_html_dir): genhtml exits with 0 or not
HGenHtml ==
    /\ HFrame
    /\ h_pc = "written"
    /\ LET module_path == h_order[h_k + 1]
       IN \/ /\ HExcept(Event("genhtml_raised", module_path, FALSE))
             /\ UNCHANGED h_html
          \/ /\ HSuccess(Event("genhtml", module_path, FALSE))
             /\ h_html' = h_html \cup {LcovHtmlDir(module_path)}
    /\ UNCHANGED <<h_options, h_last, h_disk, h_exists, h_folders, h_i, h_coverage,
                   h_order, h_file_line_info, h_info, h_error>>

\* the second loop is exhausted: handle returns
HReturn ==
    /\ HFrame
    /\ h_pc = "modules"
    /\ h_k = Len(h_order)
    /\ h_pc' = "done"
    /\ UNCHANGED <<h_options, h_last, h_disk, h_exists, h_folders, h_i, h_coverage,
                   h_order, h_k, h_file_line_info, h_status, h_info, h_html, h_log,
                   h_error>>

HIdle ==
    /\ h_pc = "idle"
    /\ h_options = EmptyDict
    /\ h_last = <<>>
    /\ h_disk = {}
    /\ h_exists = {}
    /\ h_folders = <<>>
    /\ h_i = 0
    /\ h_coverage = EmptyDict
    /\ h_order = <<>>
    /\ h_k = 0
    /\ h_file_line_info = <<>>
    /\ h_status = EmptyDict
    /\ h_info = EmptyDict
    /\ h_html = {}
    /\ h_log = <<>>
    /\ h_error = ""

----------------------------------------------------------------------------
(* Specifications *)

MgNext == MgMerge /\ UNCHANGED <<ex_vars, sel_vars, wr_vars, h_vars>>

MergeInit == MgInit /\ ExIdle /\ SelIdle /\ WrIdle /\ HIdle

SpecMerge == MergeInit /\ [][MgNext]_vars

ExNext == ExExtract /\ UNCHANGED <<mg_vars, sel_vars, wr_vars, h_vars>>

ExtractInit == ExInit /\ MgIdle /\ SelIdle /\ WrIdle /\ HIdle

SpecExtract == ExtractInit /\ [][ExNext]_vars

SelNext == SelCall /\ UNCHANGED <<mg_vars, ex_vars, wr_vars, h_vars>>

SelectInit == SelInit /\ MgIdle /\ ExIdle /\ WrIdle /\ HIdle

SpecSelect == SelectInit /\ [][SelNext]_vars

WrNext == WrSave /\ UNCHANGED <<mg_vars, ex_vars, sel_vars, h_vars>>

HNext ==
    \/ HSelect
    \/ HExtract
    \/ HExtracted
    \/ HMap
    \/ HSave
    \/ HGenHtml
    \/ HReturn

Init == HInit /\ MgIdle /\ ExIdle /\ SelIdle /\ WrIdle

Next == HNext

Spec == Init /\ [][Next]_vars

\* every call handle makes returns or raises: the loops always move on
FairSpec == Init /\ [][Next]_vars /\ WF_vars(Next)

WriterInit == WrInit /\ MgIdle /\ ExIdle /\ SelIdle /\ HIdle

SpecWriter == WriterInit /\ [][WrNext]_vars

----------------------------------------------------------------------------
(* Properties of the merger and of the extractor *)

Count(coverage, module_path, addr) ==
    Get(Get(coverage, module_path, EmptyDict), addr, 0)

\* C1: merging X then Y into a coverage leaves the module with the same
\* address -> count map as merging Y then X into the same coverage.
C1_MergeOrderIndependent ==
    mg_pc = 4 => mg_xy[mg_name] = mg_yx[mg_name]

\* the coverage the latest merger call acted on
MgLatest == IF mg_pc <= 2 THEN mg_xy ELSE mg_yx

\* C2: after a merger call every address of the module counts what it counted
\* before (0 if absent) plus what it counts in incoming (0 if absent); when
\* the module was absent, its entry is incoming as it was passed in.
C2_MergePointwiseAddition ==
    mg_pc > 0 =>
        /\ \A a \in Addrs :
              Count(MgLatest, mg_name, a)
                  = Count(mg_before, mg_name, a) + Get(mg_incoming, a, 0)
        /\ mg_name \notin DOMAIN mg_before => MgLatest[mg_name] = mg_incoming

\* C3: for every module and address the accumulated count is the number of
\* extracted folders in which a block of the module covers the address.
C3_CountIsNumberOfRuns ==
    \A m \in ModulePaths : \A a \in ExAddrs :
        Count(ex_cov, m, a) = ex_hits[m][a]

----------------------------------------------------------------------------
(* Properties of the folder selector *)

\* the indices of the window index, index-1, ..., index-n+1 present on disk
Window(index, n, disk) == {k \in (index - n + 1)..index : OutName(k) \in disk}

\* C5: in last-N mode with N > 0 and s2e-last resolving to s2e-out-<index>,
\* the call returns exactly the existing paths among s2e-out-<index> ...
\* s2e-out-<index-N+1>, in strictly descending index order.
C5_LastNWindow ==
    LET n     == sel_options.aggregate_outputs
        parts == Split(sel_last, "-")
    IN (sel_pc \in {"returned", "raised"} /\ n > 0
            /\ Len(parts) = 3 /\ IsInt(parts[3])) =>
          LET index == ParseInt(parts[3])
              W     == Window(index, n, sel_disk)
          IN /\ sel_pc = "returned"
             /\ Len(sel_ret) = Cardinality(W)
             /\ \A i \in DOMAIN sel_ret :
                   \E k \in W : /\ sel_ret[i] = OutName(k)
                                /\ i = Cardinality({j \in W : j >= k})

\* s2e-last resolves to s2e-out-10, N = 3, and s2e-out-10, s2e-out-9 and
\* s2e-out-7 exist: the call returned [s2e-out-10, s2e-out-9]
C5_Witness ==
    /\ sel_pc = "returned"
    /\ sel_options.aggregate_outputs = 3
    /\ sel_last = OutName(10)
    /\ sel_disk = {OutName(10), OutName(9), OutName(7)}
    /\ sel_ret = <<OutName(10), OutName(9)>>

----------------------------------------------------------------------------
(* Properties of the lcov writer *)

CountTag(f, tag) == Cardinality({i \in DOMAIN f : f[i].tag = tag})

\* the line map of src_file in file_line_info
ItemsOf(file_line_info, src_file) ==
    file_line_info[CHOOSE j \in DOMAIN file_line_info :
                       file_line_info[j][1] = src_file][2]

\* the lines after the SF: line at position i are the record of `items`
RecordAt(f, i, items) ==
    LET n == Len(items)
        h == Cardinality({k \in 1..n : items[k][2] # 0})
    IN /\ i + n + 3 <= Len(f)
       /\ \A k \in 1..n : f[i + k] = DA(items[k][1], items[k][2])
       /\ f[i + n + 1] = LH(h)
       /\ f[i + n + 2] = LF(n)
       /\ f[i + n + 3] = EndOfRecord
       /\ h <= n

\* C6: every record is SF, one DA per entry of the file's line map in the
\* map's order, LH with the number of lines of non-zero count, LF with the
\* number of lines, end_of_record; the counters are those of that file alone.
C6_RecordContents ==
    wr_pc = "returned" =>
        \A i \in DOMAIN wr_out :
            wr_out[i].tag = "SF" =>
                /\ \E j \in DOMAIN wr_info : wr_info[j][1] = wr_out[i].path
                /\ RecordAt(wr_out, i, ItemsOf(wr_info, wr_out[i].path))

\* two records were written, the first with a line of count 0 and a line of
\* non-zero count, the second with a line as well
C6_Witness ==
    /\ wr_pc = "returned"
    /\ CountTag(wr_out, "SF") = 2
    /\ Len(wr_info[1][2]) = 2
    /\ wr_info[1][2][1][2] # 0
    /\ wr_info[1][2][2][2] = 0
    /\ Len(wr_info[2][2]) >= 1

\* C7 as stated: as many TN: lines as end_of_record lines, and every TN:
\* line immediately followed by an SF: line.
C7_TNPerRecord ==
    wr_pc = "returned" =>
        /\ CountTag(wr_out, "TN") = CountTag(wr_out, "end_of_record")
        /\ \A i \in DOMAIN wr_out :
              wr_out[i] = TN => (i + 1 <= Len(wr_out) /\ wr_out[i + 1].tag = "SF")

\* the source files for which a record is written
Emitted(file_line_info, ignore_missing_files, exists) ==
    {i \in DOMAIN file_line_info :
        ~(ignore_missing_files /\ file_line_info[i][1] \notin exists)}

\* C7 amended: the output is one TN: line, the first line of the file,
\* followed by one record per emitted source file, each starting with SF: and
\* ending with end_of_record; no other TN: line is written, so the file
\* holds exactly one TN: line whatever the number of records.
C7_SingleTNThenRecords ==
    wr_pc = "returned" =>
        /\ wr_out[1] = TN
        /\ CountTag(wr_out, "TN") = 1
        /\ CountTag(wr_out, "SF") = Cardinality(Emitted(wr_info, wr_ignore, wr_exists))
        /\ CountTag(wr_out, "end_of_record") = CountTag(wr_out, "SF")
        /\ \A i \in DOMAIN wr_out :
              /\ wr_out[i].tag \in {"TN", "end_of_record"} /\ i < Len(wr_out)
                    => wr_out[i + 1].tag = "SF"
              /\ wr_out[i].tag = "SF" /\ i > 1
                    => wr_out[i - 1].tag \in {"TN", "end_of_record"}
        /\ Len(wr_out) > 1 => wr_out[Len(wr_out)] = EndOfRecord

\* two records were written
C7_Witness ==
    /\ wr_pc = "returned"
    /\ CountTag(wr_out, "end_of_record") = 2

\* file_line_info without the source files that do not exist
Existing(file_line_info, exists) ==
    LET Exists(e) == e[1] \in exists
    IN SelectSeq(file_line_info, Exists)

\* the paths of the SF: lines, in order
SFPaths(f) ==
    LET IsSF(l) == l.tag = "SF"
        sf == SelectSeq(f, IsSF)
    IN [i \in DOMAIN sf |-> sf[i].path]

\* C8: with ignore_missing_files the call does not raise for a missing
\* source file, no line of a missing file is written, and the file is the
\* one written for the existing files alone; without it every file of
\* file_line_info has its record.
C8_SkipMissingFiles ==
    /\ (wr_pc # "call" /\ wr_writable) => wr_pc = "returned"
    /\ wr_pc = "returned" =>
          IF wr_ignore
             THEN /\ \A i \in DOMAIN wr_out :
                        wr_out[i].tag = "SF" => wr_out[i].path \in wr_exists
                  /\ wr_out = save_coverage_info(
                                  TRUE, Existing(wr_info, wr_exists), FALSE,
                                  wr_exists).f
             ELSE SFPaths(wr_out) = [i \in DOMAIN wr_info |-> wr_info[i][1]]

\* ignore_missing_files was set, the first file is missing, the second exists
C8_Witness ==
    /\ wr_pc = "returned"
    /\ wr_ignore
    /\ Len(wr_info) = 2
    /\ wr_info[1][1] \notin wr_exists
    /\ wr_info[2][1] \in wr_exists
    /\ Len(wr_info[1][2]) >= 1
    /\ CountTag(wr_out, "SF") = 1

----------------------------------------------------------------------------
(* Properties of LineCoverage.handle *)

\* the log holds the event ev for the module
Has(module_path, ev) ==
    \E i \in DOMAIN h_log : h_log[i].ev = ev /\ h_log[i].module = module_path

\* one of the module's own steps raised
Raised(module_path) ==
    \/ Has(module_path, "map_raised")
    \/ Has(module_path, "save_raised")
    \/ Has(module_path, "genhtml_raised")

\* genhtml was run for the module
Rendered(module_path) ==
    Has(module_path, "genhtml") \/ Has(module_path, "genhtml_raised")

\* the modules the second loop is through with
Processed == {h_order[i] : i \in 1..h_k}

C4_Isolated ==
    \* no failure of a module's step ends the invocation
    /\ h_pc = "aborted" => (h_log = <<>> /\ h_k = 0)
    \* a module fails on its own steps only; one that succeeded has its file
    /\ \A m \in DOMAIN h_status :
          /\ h_status[m] = "failed" <=> Raised(m)
          /\ h_status[m] = "success" =>
                (Has(m, "save") /\ LcovInfoPath(m) \in DOMAIN h_info)
          /\ (Has(m, "map") /\ Has(m, "save")) => LcovInfoPath(m) \in DOMAIN h_info
    \* at the end every module key was attempted and is in a terminal state
    /\ h_pc = "done" =>
          \A m \in DOMAIN h_coverage :
              /\ Has(m, "map") \/ Has(m, "map_raised")
              /\ h_status[m] \in {"success", "failed"}
              /\ ~Raised(m) => h_status[m] = "success"

C4_Terminal ==
    \/ h_pc = "aborted"
    \/ /\ h_pc = "done"
       /\ \A m \in DOMAIN h_coverage : h_status[m] \in {"success", "failed"}

\* C4: every module key of the final coverage is attempted whatever happened
\* to earlier modules, a failure of get_coverage, of the writer or of genhtml
\* fails that module alone, every module whose own steps succeed has its
\* .info file written, and the invocation eventually ends with every module
\* in a terminal state.
C4_FailureIsolation == [](C4_Isolated) /\ <>(C4_Terminal)

\* the first module failed in get_coverage, the second one was still mapped
\* and written
C4_Witness ==
    /\ h_pc = "done"
    /\ Len(h_order) = 2
    /\ Has(h_order[1], "map_raised")
    /\ h_status[h_order[1]] = "failed"
    /\ h_status[h_order[2]] = "success"
    /\ LcovInfoPath(h_order[2]) \in DOMAIN h_info

\* C9: in last-N mode, when the basename of the target of s2e-last is not
\* three dash-separated components, handle ends with the error of the
\* selector and nothing was extracted, mapped, written or rendered.
C9_MalformedNameIsFatal ==
    (/\ h_pc # "start"
     /\ h_options.aggregate_outputs > 0
     /\ Len(Split(h_last, "-")) # 3) =>
        /\ h_pc = "aborted"
        /\ h_error # ""
        /\ h_i = 0
        /\ h_coverage = EmptyDict
        /\ h_log = <<>>
        /\ h_info = EmptyDict
        /\ h_html = {}

\* handle was aborted for a target of s2e-last of four components
C9_Witness ==
    /\ h_pc = "aborted"
    /\ h_options.aggregate_outputs = 2
    /\ Len(Split(h_last, "-")) = 4

\* C10: genhtml is run for a module if and only if html was requested and
\* the module's get_coverage and writer calls returned, right after the
\* module's .info file was written with ignore_missing_files = html; a
\* failing genhtml leaves the .info file in place; without html, genhtml is
\* never run.
C10_StepOrder ==
    /\ \A i \in DOMAIN h_log :
          /\ h_log[i].ev \in {"genhtml", "genhtml_raised"} =>
                /\ h_options.html
                /\ i > 1
                /\ h_log[i - 1] = Event("save", h_log[i].module, h_options.html)
                /\ \E j \in 1..(i - 1) :
                      h_log[j] = Event("map", h_log[i].module, FALSE)
                /\ LcovInfoPath(h_log[i].module) \in DOMAIN h_info
          /\ h_log[i].ev \in {"save", "save_raised"} =>
                h_log[i].flag = h_options.html
    /\ h_pc = "written" => h_options.html
    /\ (h_log # <<>> /\ h_log[Len(h_log)].ev = "save") =>
          h_info[LcovInfoPath(h_log[Len(h_log)].module)]
              = save_coverage_info(TRUE, h_file_line_info, h_options.html,
                                   h_exists).f
    /\ \A m \in Processed :
          Rendered(m) <=> (h_options.html /\ Has(m, "map") /\ Has(m, "save"))
    /\ ~h_options.html => (h_html = {} /\ h_pc # "written")

\* html was requested, genhtml failed for the first module after its .info
\* file was written, and the file is still there at the end
C10_Witness ==
    /\ h_pc = "done"
    /\ h_options.html
    /\ Len(h_order) = 2
    /\ Has(h_order[1], "genhtml_raised")
    /\ LcovInfoPath(h_order[1]) \in DOMAIN h_info
    /\ Has(h_order[2], "genhtml")

====
